---- MODULE Spec2Model ----
(***************************************************************************)
(* Model of the pairwise photo rater client (photos/static/rater_script.js) *)
(* as a state machine.  Every action is one run of the single-threaded     *)
(* event loop: a DOM event handler, or the continuation of an async        *)
(* function after one of its awaits has settled.                           *)
(***************************************************************************)
EXTENDS Integers, Sequences, FiniteSets, TLC

\* ------------------------------------------------------------------------
\* Bounds of the exploration
\* ------------------------------------------------------------------------
MaxVotes == 3          \* vote actions accepted in one page session
MaxUndos == 2          \* undo actions started in one page session
MaxInitialVotes == 1   \* largest vote total rendered by the server at page load
NumPairs == 2          \* distinct pairs the server answers with
MaxPhotos == 5         \* longest photo list handed to createLayout

\* const MAX_ROW_UNITS = 4 (script.js line 19)
MAX_ROW_UNITS == 4

\* ------------------------------------------------------------------------
\* Values
\* ------------------------------------------------------------------------
PhotoNames == <<"a.jpg", "b.jpg", "c.jpg", "d.jpg", "e.jpg", "f.jpg">>
PhotoUrls == <<"/img/a.avif", "/img/b.avif", "/img/c.avif",
               "/img/d.avif", "/img/e.avif", "/img/f.avif">>

\* A Photo Reference {name, url} as delivered by /api/rater/next-pair.
PhotoRef(i) == [name |-> PhotoNames[i], url |-> PhotoUrls[i]]

\* The pairs {image_a, image_b} the server may answer with: photo k against
\* photo k+1, so that consecutive pairs share a photo.
Pairs == {[image_a |-> PhotoRef(k), image_b |-> PhotoRef(k + 1)] : k \in 1..NumPairs}

\* JavaScript null / undefined (falsy, has no image_a / image_b).
Null == [null |-> TRUE]

LoadingUrl == "https://placehold.co/800x600/333/555?text=Loading..."
ErrorUrl == "https://placehold.co/800x600/c0392b/ffffff?text=Error+Loading"

Sides == {"a", "b"}

VARIABLES
    currentPair,     \* let currentPair
    voteHistory,     \* let voteHistory (array used as a stack)
    totalVotes,      \* let totalVotes
    isVoting,        \* let isVoting (the lock)
    imgA, imgB,      \* imgA.src, imgB.src
    undoDisabled,    \* undoButton.disabled
    votes,           \* sendVote calls suspended at an await of the vote request
    fetches,         \* fetchNextPair calls suspended at an await
    undoFetch,       \* handleUndo calls suspended at "await fetch(undo)"
    undoJson,        \* handleUndo calls suspended at "await response.json()"
    \* history variables (observers, never read by the handlers)
    initialVotes,    \* value of totalVotes read at page load
    confirmed,       \* pre-vote pairs of the votes confirmed and not undone
    nAccepted,       \* vote actions accepted so far
    nVoteConfirmed,  \* vote confirmations processed so far
    nUndoStarted,    \* undo actions started so far
    nUndoConfirmed,  \* undo confirmations processed so far
    fetchFailed,     \* the most recently settled next-pair fetch failed
    restored,        \* currentPair was put back by a confirmed undo and no vote
                     \* action was accepted since
    retired,         \* currentPair is a pair whose vote was confirmed and
                     \* that no publish or undo has replaced since
    \* state of the gallery page (photos/static/script.js)
    capacity,        \* MAX_ROW_UNITS as configured
    photos,          \* the argument of createLayout
    photoQueue,      \* let photoQueue
    rowPhotos,       \* let rowPhotos
    rowUnits,        \* let rowUnits
    galleryRows,     \* the rows buildRow appended to the gallery container
    layoutPc,        \* position of createLayout: "off", "outer", "inner", "done"
    allPhotosData,   \* let allPhotosData
    currentPhoto,    \* let currentPhoto
    currentPhotoIndex, \* let currentPhotoIndex (0-based, as in the script)
    lightboxShown,   \* #lightbox-overlay has the class 'show'
    sortKey,         \* sortKeySelect.value
    sortDir,         \* sortDirSelect.value
    photosFetch,     \* the fetch of /api/photos: "off", "pending", "done", "error"
    lastNav,         \* the last event if it was a next/previous step, with the
                     \* index and photo it started from
    navTrip          \* set when the last two events were next and previous in
                     \* either order: the index and photo before the first

\* The state of the rater page.
raterVars == <<currentPair, voteHistory, totalVotes, isVoting, imgA, imgB,
               undoDisabled, votes, fetches, undoFetch, undoJson, initialVotes,
               confirmed, nAccepted, nVoteConfirmed, nUndoStarted,
               nUndoConfirmed, fetchFailed, retired, restored>>

\* The state of the gallery page.
\* The state of the lightbox and of the sort controls.
lightboxVars == <<allPhotosData, currentPhoto, currentPhotoIndex, lightboxShown,
                  sortKey, sortDir, photosFetch, lastNav, navTrip>>

scriptVars == <<capacity, photos, photoQueue, rowPhotos, rowUnits, galleryRows,
                layoutPc, lightboxVars>>

vars == <<raterVars, scriptVars>>

\* ------------------------------------------------------------------------
\* Helpers
\* ------------------------------------------------------------------------
\* Array.prototype.pop: removes the last element; a no-op on an empty array.
Pop(h) == IF Len(h) = 0 THEN h ELSE SubSeq(h, 1, Len(h) - 1)

\* The value Array.prototype.pop returns: the last element, or undefined.
Popped(h) == IF Len(h) = 0 THEN Null ELSE h[Len(h)]

\* The thread record of a fetchNextPair call suspended at "await fetch(url)".
NewFetch(by, id) ==
    [id |-> id, stage |-> "fetch", data |-> Null, pending |-> {}, by |-> by]

\* A lock left released where fetchNextPair takes it.
FetchLockOnEntry_Released == FALSE

\* The value fetchNextPair gives the lock on entry (line 22).
FetchLockOnEntry == TRUE

\* The value the finally block of fetchNextPair gives the lock (line 53).
FetchLockOnSettle == FALSE

\* A JavaScript array with the given elements.
JsArray(items) == [kind |-> "array", items |-> items]

\* A JSON value that is not an array: null, or an object such as
\* {"error": "x"}.  It has no elements.
JsNull == [kind |-> "null", items |-> <<>>]

JsObject == [kind |-> "object", items |-> <<>>]

\* No next/previous step to remember.
NoNav == [kind |-> "none", index |-> -1, photo |-> Null]

\* The lightbox state at construction (lines 22-24), the gallery not fetched.
LightboxOff ==
    /\ allPhotosData = JsArray(<<>>)
    /\ currentPhoto = Null
    /\ currentPhotoIndex = -1
    /\ lightboxShown = FALSE
    /\ sortKey = "date"
    /\ sortDir = "desc"
    /\ photosFetch = "off"
    /\ lastNav = NoNav
    /\ navTrip = NoNav

\* The gallery script is not part of the rater page.
ScriptOff ==
    /\ LightboxOff
    /\ capacity = 0
    /\ photos = <<>>
    /\ photoQueue = <<>>
    /\ rowPhotos = <<>>
    /\ rowUnits = 0
    /\ galleryRows = <<>>
    /\ layoutPc = "off"

\* ------------------------------------------------------------------------
\* Initial state: the DOMContentLoaded handler has run to its end, i.e.
\* the state declarations and the initial fetchNextPair() up to its first
\* await.  The undo button starts disabled ("Enable undo after the first
\* vote"); the vote total is whatever the server rendered into the page.
\* ------------------------------------------------------------------------
Init ==
    /\ currentPair = Null
    /\ voteHistory = <<>>
    /\ totalVotes \in 0..MaxInitialVotes
    /\ initialVotes = totalVotes
    /\ isVoting = FetchLockOnEntry
    /\ imgA = LoadingUrl
    /\ imgB = LoadingUrl
    /\ undoDisabled = TRUE
    /\ votes = {}
    /\ fetches = {NewFetch("init", 0)}
    /\ undoFetch = 0
    /\ undoJson = 0
    /\ confirmed = <<>>
    /\ nAccepted = 0
    /\ nVoteConfirmed = 0
    /\ nUndoStarted = 0
    /\ nUndoConfirmed = 0
    /\ fetchFailed = FALSE
    /\ retired = FALSE
    /\ restored = FALSE
    /\ ScriptOff

\* ------------------------------------------------------------------------
\* fetchNextPair
\* ------------------------------------------------------------------------
\* fetchNextPair() from its entry to "await fetch(url)": take the lock, show
\* the loading placeholders, send the request.
FetchBegin(by, id) ==
    /\ isVoting' = FetchLockOnEntry
    /\ imgA' = LoadingUrl
    /\ imgB' = LoadingUrl
    /\ fetches' = fetches \cup {NewFetch(by, id)}

\* "await fetch(url)" resolves with response.ok: the call moves on to
\* "await response.json()".
FetchResponseOk(f) ==
    /\ f \in fetches
    /\ f.stage = "fetch"
    /\ fetches' = (fetches \ {f}) \cup {[f EXCEPT !.stage = "json"]}
    /\ UNCHANGED <<currentPair, voteHistory, totalVotes, isVoting, imgA, imgB,
                   undoDisabled, votes, undoFetch, undoJson, initialVotes, retired, restored, scriptVars,
                   confirmed, nAccepted, nVoteConfirmed, nUndoStarted,
                   nUndoConfirmed, fetchFailed>>

\* "await response.json()" resolves with the pair p: both preloads start and
\* the call waits on Promise.all.
FetchData(f, p) ==
    /\ f \in fetches
    /\ f.stage = "json"
    /\ fetches' = (fetches \ {f}) \cup
           {[f EXCEPT !.stage = "preload", !.data = p, !.pending = Sides]}
    /\ UNCHANGED <<currentPair, voteHistory, totalVotes, isVoting, imgA, imgB,
                   undoDisabled, votes, undoFetch, undoJson, initialVotes, retired, restored, scriptVars,
                   confirmed, nAccepted, nVoteConfirmed, nUndoStarted,
                   nUndoConfirmed, fetchFailed>>

\* A catch block that replaces only the first image.
FetchCatch_OneImage(f) ==
    /\ imgA' = ErrorUrl
    /\ isVoting' = FetchLockOnSettle
    /\ fetches' = fetches \ {f}
    /\ fetchFailed' = TRUE
    /\ UNCHANGED <<currentPair, voteHistory, totalVotes, undoDisabled, votes,
                   undoFetch, undoJson, initialVotes, retired, restored, scriptVars,
                   confirmed, nAccepted, nVoteConfirmed, nUndoStarted,
                   nUndoConfirmed, imgB>>

\* The catch and finally blocks of fetchNextPair (lines 48-54).
FetchCatch(f) ==
    /\ imgA' = ErrorUrl
    /\ imgB' = ErrorUrl
    /\ isVoting' = FetchLockOnSettle
    /\ fetches' = fetches \ {f}
    /\ fetchFailed' = TRUE
    /\ UNCHANGED <<currentPair, voteHistory, totalVotes, undoDisabled, votes,
                   undoFetch, undoJson, initialVotes, retired, restored, scriptVars,
                   confirmed, nAccepted,
                   nVoteConfirmed, nUndoStarted, nUndoConfirmed>>

\* The request fails: fetch() rejects, the response is not ok, or its body
\* is not the JSON of a pair.
FetchFail(f) ==
    /\ f \in fetches
    /\ f.stage \in {"fetch", "json"}
    /\ FetchCatch(f)

\* One of the two preloaded images fires onerror: Promise.all rejects.
PreloadError(f, side) ==
    /\ f \in fetches
    /\ f.stage = "preload"
    /\ side \in f.pending
    /\ FetchCatch(f)

\* Lines 44-46 and the finally block: the fetched pair is published.
FetchPublish(f) ==
    /\ currentPair' = f.data
    /\ imgA' = f.data.image_a.url
    /\ imgB' = f.data.image_b.url
    /\ isVoting' = FetchLockOnSettle
    /\ fetches' = fetches \ {f}
    /\ fetchFailed' = FALSE
    /\ retired' = FALSE
    /\ UNCHANGED <<voteHistory, totalVotes, undoDisabled, votes, undoFetch,
                   undoJson, initialVotes, restored, scriptVars,
                   confirmed, nAccepted,
                   nVoteConfirmed, nUndoStarted, nUndoConfirmed>>

\* One of the two preloaded images fires onload.  Promise.all resolves with
\* the second of them, and the pair is published in the same turn.
PreloadLoaded(f, side) ==
    /\ f \in fetches
    /\ f.stage = "preload"
    /\ side \in f.pending
    /\ IF f.pending = {side}
         THEN FetchPublish(f)
         ELSE /\ fetches' = (fetches \ {f}) \cup
                      {[f EXCEPT !.pending = f.pending \ {side}]}
              /\ UNCHANGED <<currentPair, voteHistory, totalVotes, isVoting,
                             imgA, imgB, undoDisabled, votes, undoFetch,
                             undoJson, initialVotes, retired, restored, scriptVars,
                   confirmed, nAccepted,
                             nVoteConfirmed, nUndoStarted, nUndoConfirmed,
                             fetchFailed>>

\* ------------------------------------------------------------------------
\* sendVote
\* ------------------------------------------------------------------------
\* The guard of sendVote (line 74): it returns when this is false.
SendVoteGuard == ~(isVoting \/ currentPair = Null)

\* A lock left as it was found where sendVote takes it.
VoteLockOnEntry_Unset == FALSE

\* The value sendVote gives the lock once the guard has passed (line 75).
VoteLockOnEntry == TRUE

\* A confirmed vote that is not counted.
CountVote_Stale(n) == n

\* totalVotes++ (line 89).
CountVote(n) == n + 1

\* A catch block of sendVote that keeps the lock.
VoteLockOnError_Held == TRUE

\* The value the catch block of sendVote gives the lock (line 100).
VoteLockOnError == FALSE

\* sendVote(winnerName, loserName) from its entry to "await fetch(vote)".
\* The thread record keeps the arguments of the call; "pair" and "before"
\* record the pair voted on and the state the action found.
SendVote(winnerName, loserName) ==
    /\ SendVoteGuard
    /\ nAccepted < MaxVotes
    /\ isVoting' = VoteLockOnEntry
    /\ voteHistory' = Append(voteHistory, currentPair)
    /\ votes' = votes \cup
           {[id |-> nAccepted + 1, stage |-> "fetch",
             winner |-> winnerName, loser |-> loserName,
             pair |-> currentPair,
             before |-> [voteHistory |-> voteHistory, totalVotes |-> totalVotes,
                         currentPair |-> currentPair,
                         imgA |-> imgA, imgB |-> imgB]]}
    /\ nAccepted' = nAccepted + 1
    /\ restored' = FALSE
    /\ UNCHANGED <<currentPair, totalVotes, imgA, imgB, undoDisabled, fetches,
                   undoFetch, undoJson, initialVotes, retired, scriptVars,
                   confirmed,
                   nVoteConfirmed, nUndoStarted, nUndoConfirmed, fetchFailed>>

\* The guard of the two click listeners (lines 144, 150).
ClickGuard == currentPair # Null /\ ~isVoting

\* The guard of the keydown listener (line 161): it returns when this is
\* false.
KeydownGuard == ~(isVoting \/ currentPair = Null)

\* A click on the wrapper of image A or image B (lines 143-153).
ClickImage(side) ==
    /\ ClickGuard
    /\ IF side = "a"
         THEN SendVote(currentPair.image_a.name, currentPair.image_b.name)
         ELSE SendVote(currentPair.image_b.name, currentPair.image_a.name)

\* ArrowLeft (side a) or ArrowRight (side b) (lines 163-166).
KeyArrow(side) ==
    /\ KeydownGuard
    /\ IF side = "a"
         THEN SendVote(currentPair.image_a.name, currentPair.image_b.name)
         ELSE SendVote(currentPair.image_b.name, currentPair.image_a.name)

\* "await fetch(vote)" resolves: the call moves on to "await response.json()".
VoteResponse(v) ==
    /\ v \in votes
    /\ v.stage = "fetch"
    /\ votes' = (votes \ {v}) \cup {[v EXCEPT !.stage = "json"]}
    /\ UNCHANGED <<currentPair, voteHistory, totalVotes, isVoting, imgA, imgB,
                   undoDisabled, fetches, undoFetch, undoJson, initialVotes, retired, restored, scriptVars,
                   confirmed, nAccepted, nVoteConfirmed, nUndoStarted,
                   nUndoConfirmed, fetchFailed>>

\* The body parsed with data.success true (lines 88-92): count the vote,
\* enable undo and call fetchNextPair, which runs to its first await.
VoteConfirmed(v) ==
    /\ v \in votes
    /\ v.stage = "json"
    /\ totalVotes' = CountVote(totalVotes)
    /\ undoDisabled' = FALSE
    /\ votes' = votes \ {v}
    /\ FetchBegin("vote", v.id)
    /\ confirmed' = Append(confirmed, v.pair)
    /\ nVoteConfirmed' = nVoteConfirmed + 1
    /\ retired' = IF currentPair = v.pair THEN TRUE ELSE retired
    /\ UNCHANGED <<currentPair, voteHistory, undoFetch, undoJson,
                   initialVotes, restored, scriptVars,
                   nAccepted, nUndoStarted, nUndoConfirmed,
                   fetchFailed>>

\* The catch block of sendVote (lines 96-101): roll the history back and
\* release the lock.
VoteCatch(v) ==
    /\ voteHistory' = Pop(voteHistory)
    /\ isVoting' = VoteLockOnError
    /\ votes' = votes \ {v}
    /\ UNCHANGED <<currentPair, totalVotes, imgA, imgB, undoDisabled, fetches,
                   undoFetch, undoJson, initialVotes, retired, restored, scriptVars,
                   confirmed, nAccepted,
                   nVoteConfirmed, nUndoStarted, nUndoConfirmed, fetchFailed>>

\* The body parsed with data.success false: line 94 throws.
VoteRejected(v) ==
    /\ v \in votes
    /\ v.stage = "json"
    /\ VoteCatch(v)

\* fetch() rejects, or the body is not JSON.
VoteTransportFail(v) ==
    /\ v \in votes
    /\ v.stage \in {"fetch", "json"}
    /\ VoteCatch(v)

\* ------------------------------------------------------------------------
\* handleUndo
\* ------------------------------------------------------------------------
\* handleUndo() from its entry to "await fetch(undo)" (lines 109-115).
HandleUndo ==
    /\ Len(voteHistory) # 0
    /\ nUndoStarted < MaxUndos
    /\ undoDisabled' = TRUE
    /\ undoFetch' = undoFetch + 1
    /\ nUndoStarted' = nUndoStarted + 1
    /\ UNCHANGED <<currentPair, voteHistory, totalVotes, isVoting, imgA, imgB,
                   votes, fetches, undoJson, initialVotes, retired, restored, scriptVars,
                   confirmed,
                   nAccepted, nVoteConfirmed, nUndoConfirmed, fetchFailed>>

\* A click on the undo button (line 156).  A disabled button dispatches no
\* click event.
UndoClick ==
    /\ ~undoDisabled
    /\ HandleUndo

\* Backspace (lines 161, 167-169).
KeyBackspace ==
    /\ KeydownGuard
    /\ ~undoDisabled
    /\ HandleUndo

\* "await fetch(undo)" resolves: the call moves on to "await response.json()".
UndoResponse ==
    /\ undoFetch > 0
    /\ undoFetch' = undoFetch - 1
    /\ undoJson' = undoJson + 1
    /\ UNCHANGED <<currentPair, voteHistory, totalVotes, isVoting, imgA, imgB,
                   undoDisabled, votes, fetches, initialVotes, retired, restored, scriptVars,
                   confirmed,
                   nAccepted, nVoteConfirmed, nUndoStarted, nUndoConfirmed,
                   fetchFailed>>

\* The finally block of handleUndo (lines 132-137), given the history it
\* finds.
UndoFinally(h) ==
    undoDisabled' = IF Len(h) > 0 THEN FALSE ELSE undoDisabled

\* The body parsed with data.success true (lines 118-126).  On an empty
\* history pop() returns undefined: currentPair becomes undefined, reading
\* lastPair.image_a throws, and the catch block swallows the TypeError.
UndoConfirmed ==
    /\ undoJson > 0
    /\ undoJson' = undoJson - 1
    /\ voteHistory' = Pop(voteHistory)
    /\ currentPair' = Popped(voteHistory)
    /\ IF Len(voteHistory) # 0
         THEN /\ imgA' = Popped(voteHistory).image_a.url
              /\ imgB' = Popped(voteHistory).image_b.url
              /\ totalVotes' = totalVotes - 1
         ELSE UNCHANGED <<imgA, imgB, totalVotes>>
    /\ UndoFinally(voteHistory')
    /\ confirmed' = Pop(confirmed)
    /\ nUndoConfirmed' = nUndoConfirmed + 1
    /\ retired' = FALSE
    /\ restored' = (Len(voteHistory) # 0)
    /\ UNCHANGED <<isVoting, votes, fetches, undoFetch, initialVotes, scriptVars,
                   nAccepted, nVoteConfirmed, nUndoStarted, fetchFailed>>

\* The catch and finally blocks of handleUndo after a failure.
UndoCatch ==
    /\ UndoFinally(voteHistory)
    /\ UNCHANGED <<currentPair, voteHistory, totalVotes, isVoting, imgA, imgB,
                   votes, fetches, initialVotes, retired, restored, scriptVars,
                   confirmed, nAccepted,
                   nVoteConfirmed, nUndoStarted, nUndoConfirmed, fetchFailed>>

\* The body parsed with data.success false: line 128 throws.
UndoRejected ==
    /\ undoJson > 0
    /\ undoJson' = undoJson - 1
    /\ UNCHANGED undoFetch
    /\ UndoCatch

\* fetch() rejects.
UndoTransportFail ==
    /\ undoFetch > 0
    /\ undoFetch' = undoFetch - 1
    /\ UNCHANGED undoJson
    /\ UndoCatch

\* The body of the undo response is not JSON.
UndoParseFail ==
    /\ undoJson > 0
    /\ undoJson' = undoJson - 1
    /\ UNCHANGED undoFetch
    /\ UndoCatch

\* ------------------------------------------------------------------------
\* Specification
\* ------------------------------------------------------------------------
Next ==
    \/ \E side \in Sides : ClickImage(side)
    \/ \E side \in Sides : KeyArrow(side)
    \/ UndoClick
    \/ KeyBackspace
    \/ \E v \in votes : VoteResponse(v)
    \/ \E v \in votes : VoteConfirmed(v)
    \/ \E v \in votes : VoteRejected(v)
    \/ \E v \in votes : VoteTransportFail(v)
    \/ UndoResponse
    \/ UndoConfirmed
    \/ UndoRejected
    \/ UndoTransportFail
    \/ UndoParseFail
    \/ \E f \in fetches : FetchResponseOk(f)
    \/ \E f \in fetches : FetchFail(f)
    \/ \E f \in fetches, p \in Pairs : FetchData(f, p)
    \/ \E f \in fetches, side \in Sides : PreloadLoaded(f, side)
    \/ \E f \in fetches, side \in Sides : PreloadError(f, side)

Spec == Init /\ [][Next]_vars

\* ------------------------------------------------------------------------
\* createLayout (script.js lines 53-71)
\* ------------------------------------------------------------------------
\* The state of the rater page while the gallery script is the one running.
RaterOff ==
    /\ currentPair = Null
    /\ voteHistory = <<>>
    /\ totalVotes = 0
    /\ initialVotes = 0
    /\ isVoting = FALSE
    /\ imgA = LoadingUrl
    /\ imgB = LoadingUrl
    /\ undoDisabled = TRUE
    /\ votes = {}
    /\ fetches = {}
    /\ undoFetch = 0
    /\ undoJson = 0
    /\ confirmed = <<>>
    /\ nAccepted = 0
    /\ nVoteConfirmed = 0
    /\ nUndoStarted = 0
    /\ nUndoConfirmed = 0
    /\ fetchFailed = FALSE
    /\ retired = FALSE
    /\ restored = FALSE

\* photo.orientation as sent by /api/photos; anything but 'horizontal' is
\* laid out as a vertical tile.
Orientations == {"horizontal", "vertical", "square"}

\* Values of the row capacity: the shipped one and the smaller ones the
\* constant can be edited to.
Capacities == 1..MAX_ROW_UNITS

RECURSIVE PhotoListsOfLen(_)
\* The lists of n photos.
PhotoListsOfLen(n) ==
    IF n = 0 THEN {<<>>}
    ELSE {Append(list, [id |-> n, orientation |-> o]) :
              list \in PhotoListsOfLen(n - 1), o \in Orientations}

\* The photo lists handed to createLayout; photo.id is the position in the list.
PhotoLists == UNION {PhotoListsOfLen(n) : n \in 0..MaxPhotos}

\* A cost of one unit for every photo.
PhotoUnits_Flat(photo) == 1

\* nextPhotoUnits (line 60)
PhotoUnits(photo) == IF photo.orientation = "horizontal" THEN 2 ELSE 1

\* A break condition that fires as soon as the row would be exactly full.
Overflows_Eager(units, nextUnits, maxUnits) ==
    units > 0 /\ units + nextUnits >= maxUnits

\* A break condition that looks only at the units already in the row.
Overflows_IgnoresNext(units, nextUnits, maxUnits) ==
    units > 0 /\ units > maxUnits

\* A break condition without the empty-row rule.
Overflows_NoEmptyRowRule(units, nextUnits, maxUnits) ==
    units + nextUnits > maxUnits

\* The break condition of the inner loop (line 61)
Overflows(units, nextUnits, maxUnits) ==
    units > 0 /\ units + nextUnits > maxUnits

\* A push that puts the photo in front of the row.
RowPush_Front(row, photo) == <<photo>> \o row

\* rowPhotos.push(photo) (line 65)
RowPush(row, photo) == Append(row, photo)

\* buildRow(rowPhotos): one more .gallery-row in the container (lines 29-48)
buildRow(rows, row) == Append(rows, row)

\* createLayout(photos) is called; let photoQueue = [...photos] (line 54)
InitLayout ==
    /\ RaterOff
    /\ LightboxOff
    /\ capacity \in Capacities
    /\ photos \in PhotoLists
    /\ photoQueue = photos
    /\ rowPhotos = <<>>
    /\ rowUnits = 0
    /\ galleryRows = <<>>
    /\ layoutPc = "outer"

\* The outer loop test succeeds and a new row is started (lines 55-57).
LayoutRowStart ==
    /\ layoutPc = "outer"
    /\ Len(photoQueue) > 0
    /\ rowPhotos' = <<>>
    /\ rowUnits' = 0
    /\ layoutPc' = "inner"
    /\ UNCHANGED <<capacity, photos, photoQueue, galleryRows, raterVars,
                   lightboxVars>>

\* One pass of the inner loop that does not break (lines 58-66).
LayoutAdmit ==
    /\ layoutPc = "inner"
    /\ Len(photoQueue) > 0
    /\ LET nextPhoto == photoQueue[1]
           nextPhotoUnits == PhotoUnits(nextPhoto)
       IN /\ ~Overflows(rowUnits, nextPhotoUnits, capacity)
          /\ rowUnits' = rowUnits + nextPhotoUnits
          /\ rowPhotos' = RowPush(rowPhotos, Head(photoQueue))
          /\ photoQueue' = Tail(photoQueue)
    /\ UNCHANGED <<capacity, photos, galleryRows, layoutPc, raterVars,
                   lightboxVars>>

\* The inner loop ends, by the break of line 62 or on an empty queue, and
\* the row is built when it holds a photo (lines 67-69).
LayoutRowEnd ==
    /\ layoutPc = "inner"
    /\ \/ Len(photoQueue) = 0
       \/ /\ Len(photoQueue) > 0
          /\ Overflows(rowUnits, PhotoUnits(photoQueue[1]), capacity)
    /\ galleryRows' = IF Len(rowPhotos) > 0
                        THEN buildRow(galleryRows, rowPhotos)
                        ELSE galleryRows
    /\ layoutPc' = "outer"
    /\ UNCHANGED <<capacity, photos, photoQueue, rowPhotos, rowUnits, raterVars,
                   lightboxVars>>

\* The outer loop test fails and createLayout returns (lines 55, 71).
LayoutReturn ==
    /\ layoutPc = "outer"
    /\ Len(photoQueue) = 0
    /\ layoutPc' = "done"
    /\ UNCHANGED <<capacity, photos, photoQueue, rowPhotos, rowUnits,
                   galleryRows, raterVars,
                   lightboxVars>>

NextLayout ==
    \/ LayoutRowStart
    \/ LayoutAdmit
    \/ LayoutRowEnd
    \/ LayoutReturn

SpecLayout == InitLayout /\ [][NextLayout]_vars

\* createLayout is one synchronous run of the engine: it keeps executing
\* until it returns.
SpecLayoutFair ==
    InitLayout /\ [][NextLayout]_vars /\ WF_vars(NextLayout)

\* ------------------------------------------------------------------------
\* The gallery page: sorting and the lightbox (script.js lines 74-261)
\* ------------------------------------------------------------------------
\* The values of #sort-key and #sort-dir.
SortKeys == {"rating", "date", "filename"}

SortDirs == {"asc", "desc"}

\* The letters naming the photos of the collection: B b, E-acute e-acute,
\* Sigma sigma, so that photos 2k-1 and 2k have names that differ only in
\* case.
FileNameLetters == <<66, 98, 201, 233, 931, 963>>

\* A file name as its sequence of UTF-16 code units.
FileNameOf(i) ==
    IF i <= Len(FileNameLetters) THEN <<FileNameLetters[i]>> ELSE <<64 + i>>

\* Photo i of the collection served by /api/photos.
GalleryPhoto(i) ==
    [id |-> i,
     orientation |-> IF i % 2 = 1 THEN "horizontal" ELSE "vertical",
     rating |-> (i * 2) % 3,
     date_for_sort |-> (i * 3) % 7,
     metadata |-> [filename |-> FileNameOf(i)]]

RECURSIVE PhotosResponse(_)
\* The body of the /api/photos response for a collection of n photos.
PhotosResponse(n) ==
    IF n = 0 THEN <<>> ELSE Append(PhotosResponse(n - 1), GalleryPhoto(n))

\* The code units the case mapping below covers: Basic Latin, Latin-1
\* Supplement, Latin Extended-A, the combining diacritical marks and the
\* Greek letters U+0386..U+03CE.
CaseMappedUnits == (0..383) \cup (768..879) \cup (902..974)

\* Upper-case letters whose lower case is 32 code points on.
UpperBy32 ==
    (65..90) \cup (192..214) \cup (216..222) \cup (913..929) \cup (931..939)

\* Upper-case letters of Latin Extended-A whose lower case is the next code
\* point.
UpperBy1 ==
    {c \in (256..303) \cup (306..311) \cup (330..375) : c % 2 = 0}
        \cup {c \in (313..328) \cup (377..382) : c % 2 = 1}

\* The Unicode property Cased on the covered code units.
Cased ==
    (65..90) \cup (97..122) \cup {170, 181, 186} \cup (192..214)
        \cup (216..246) \cup (248..383) \cup {902} \cup (904..906) \cup {908}
        \cup (910..929) \cup (931..974)

\* The Unicode property Case_Ignorable on the covered code units.
CaseIgnorable ==
    {39, 46, 58, 94, 96, 168, 173, 175, 180, 183, 184, 903} \cup (768..879)

RECURSIVE CasedBefore(_, _)
\* Going back from position i, the first code unit that is not
\* case-ignorable is a cased letter.
CasedBefore(str, i) ==
    IF i < 1 THEN FALSE
    ELSE IF str[i] \in CaseIgnorable THEN CasedBefore(str, i - 1)
    ELSE str[i] \in Cased

RECURSIVE CasedAfter(_, _)
\* Going on from position i, the first code unit that is not
\* case-ignorable is a cased letter.
CasedAfter(str, i) ==
    IF i > Len(str) THEN FALSE
    ELSE IF str[i] \in CaseIgnorable THEN CasedAfter(str, i + 1)
    ELSE str[i] \in Cased

\* The condition Final_Sigma of the Unicode special casing at position i.
FinalSigma(str, i) == CasedBefore(str, i - 1) /\ ~CasedAfter(str, i + 1)

\* The lower case of the code unit at position i of str.
LowerUnit(str, i) ==
    LET c == str[i]
    IN IF c = 931 /\ FinalSigma(str, i) THEN <<962>>
       ELSE IF c \in UpperBy32 THEN <<c + 32>>
       ELSE IF c \in UpperBy1 THEN <<c + 1>>
       ELSE IF c = 304 THEN <<105, 775>>
       ELSE IF c = 376 THEN <<255>>
       ELSE IF c = 902 THEN <<940>>
       ELSE IF c \in 904..906 THEN <<c + 37>>
       ELSE IF c = 908 THEN <<972>>
       ELSE IF c \in 910..911 THEN <<c + 63>>
       ELSE <<c>>

RECURSIVE LowerFrom(_, _)
\* The lower case of str from position i on.
LowerFrom(str, i) ==
    IF i > Len(str) THEN <<>> ELSE LowerUnit(str, i) \o LowerFrom(str, i + 1)

\* String.prototype.toLowerCase on a string of code units in
\* CaseMappedUnits.
ToLowerCase(str) == LowerFrom(str, 1)

RECURSIVE StringLess(_, _)
\* a < b on strings: code unit by code unit, a proper prefix being smaller.
StringLess(a, b) ==
    IF b = <<>> THEN FALSE
    ELSE IF a = <<>> THEN TRUE
    ELSE IF Head(a) # Head(b) THEN Head(a) < Head(b)
    ELSE StringLess(Tail(a), Tail(b))

\* The comparator handed to sort (lines 79-104).
Comparator(a, b, key, dir) ==
    LET greater == IF key = "rating" THEN a.rating > b.rating
                   ELSE IF key = "date" THEN a.date_for_sort > b.date_for_sort
                   ELSE StringLess(ToLowerCase(b.metadata.filename),
                                   ToLowerCase(a.metadata.filename))
        less == IF key = "rating" THEN a.rating < b.rating
                ELSE IF key = "date" THEN a.date_for_sort < b.date_for_sort
                ELSE StringLess(ToLowerCase(a.metadata.filename),
                                ToLowerCase(b.metadata.filename))
        comparison == IF greater THEN 1 ELSE IF less THEN -1 ELSE 0
    IN IF dir = "asc" THEN comparison ELSE -comparison

RECURSIVE InsertSorted(_, _, _, _)
\* x placed in a sorted list before the first element that compares greater.
InsertSorted(sorted, x, key, dir) ==
    IF sorted = <<>> THEN <<x>>
    ELSE IF Comparator(Head(sorted), x, key, dir) > 0 THEN <<x>> \o sorted
    ELSE <<Head(sorted)>> \o InsertSorted(Tail(sorted), x, key, dir)

RECURSIVE ArraySort(_, _, _)
\* Array.prototype.sort with the comparator: a stable sort.
ArraySort(list, key, dir) ==
    IF list = <<>> THEN <<>>
    ELSE InsertSorted(ArraySort(SubSeq(list, 1, Len(list) - 1), key, dir),
                      list[Len(list)], key, dir)

RECURSIVE FillRow(_, _, _)
\* The inner loop of createLayout (lines 58-66): the row and the queue it
\* leaves; reading the orientation of a null element throws (line 60).
FillRow(queue, row, units) ==
    IF Len(queue) = 0 THEN [row |-> row, queue |-> queue, threw |-> FALSE]
    ELSE IF queue[1] = Null
      THEN [row |-> row, queue |-> queue, threw |-> TRUE]
    ELSE IF Overflows(units, PhotoUnits(queue[1]), MAX_ROW_UNITS)
      THEN [row |-> row, queue |-> queue, threw |-> FALSE]
    ELSE FillRow(Tail(queue), RowPush(row, Head(queue)),
                 units + PhotoUnits(queue[1]))

RECURSIVE LayoutRows(_, _)
\* The outer loop of createLayout (lines 55-70): the rows in the container
\* when it returns or throws.
LayoutRows(queue, rows) ==
    IF Len(queue) = 0 THEN [rows |-> rows, threw |-> FALSE]
    ELSE LET filled == FillRow(queue, <<>>, 0)
         IN IF filled.threw THEN [rows |-> rows, threw |-> TRUE]
            ELSE LayoutRows(filled.queue,
                            IF Len(filled.row) > 0
                              THEN buildRow(rows, filled.row)
                              ELSE rows)

\* The comparator is called on every element of a list of two or more, and
\* reading the sort field of a null element throws (lines 83-91).
SortThrows(list) ==
    Len(list) >= 2 /\ \E i \in 1..Len(list) : list[i] = Null

\* The body of applySortAndRender (lines 77-110) on the value data of
\* allPhotosData with the container holding rows: the value, the rows and
\* whether it threw.  sort is missing on a value that is not an array; a
\* sort whose comparator throws leaves the array as it was; the container
\* is cleared once the sort has returned.
SortAndRender(data, key, dir, rows) ==
    IF data.kind # "array" \/ SortThrows(data.items)
      THEN [data |-> data, rows |-> rows, threw |-> TRUE]
      ELSE LET sorted == ArraySort(data.items, key, dir)
               laid == LayoutRows(sorted, <<>>)
           IN [data |-> JsArray(sorted), rows |-> laid.rows,
               threw |-> laid.threw]

\* The bodies /api/photos answers with that are not lists of photo objects.
MalformedBodies ==
    {JsNull, JsObject, JsArray(<<Null>>), JsArray(<<GalleryPhoto(1), Null>>)}

\* The JSON bodies of the /api/photos response.
PhotoBodies ==
    {JsArray(PhotosResponse(n)) : n \in 0..MaxPhotos} \cup MalformedBodies

\* The page after DOMContentLoaded: /api/photos is being fetched, the sort
\* controls show whatever the markup selects.
InitGallery ==
    /\ RaterOff
    /\ capacity = MAX_ROW_UNITS
    /\ photos = <<>>
    /\ photoQueue = <<>>
    /\ rowPhotos = <<>>
    /\ rowUnits = 0
    /\ galleryRows = <<>>
    /\ layoutPc = "off"
    /\ allPhotosData = JsArray(<<>>)
    /\ currentPhoto = Null
    /\ currentPhotoIndex = -1
    /\ lightboxShown = FALSE
    /\ sortKey \in SortKeys
    /\ sortDir \in SortDirs
    /\ photosFetch = "pending"
    /\ lastNav = NoNav
    /\ navTrip = NoNav

\* What every gallery action leaves alone.
GalleryFrame == UNCHANGED <<raterVars, capacity, photos, photoQueue, rowPhotos,
                            rowUnits, layoutPc>>

\* applySortAndRender() with the control values key and dir, called from a
\* change listener (lines 74-111): what it throws is not caught.
applySortAndRender(key, dir) ==
    LET done == SortAndRender(allPhotosData, key, dir, galleryRows)
    IN /\ allPhotosData' = done.data
       /\ galleryRows' = done.rows

\* showPhotoByIndex(index) (lines 114-131).  Line 115 tests index < 0 first;
\* only then it reads length, which throws on null and is undefined on an
\* object, so that the second test fails there.
showPhotoByIndex(index) ==
    IF \/ index < 0
       \/ allPhotosData.kind = "null"
       \/ /\ allPhotosData.kind = "array"
          /\ index >= Len(allPhotosData.items)
      THEN UNCHANGED <<currentPhoto, currentPhotoIndex>>
      ELSE /\ currentPhotoIndex' = index
           /\ currentPhoto' = IF allPhotosData.kind = "array"
                                THEN allPhotosData.items[index + 1]
                                ELSE Null

\* The /api/photos response is parsed (lines 248-256); what the callback
\* throws after its assignments is caught at line 257.
PhotosLoaded(body) ==
    /\ photosFetch = "pending"
    /\ sortKey' = "date"
    /\ sortDir' = "desc"
    /\ LET done == SortAndRender(body, "date", "desc", galleryRows)
       IN /\ allPhotosData' = done.data
          /\ galleryRows' = IF done.threw THEN <<>> ELSE done.rows
          /\ photosFetch' = IF done.threw THEN "error" ELSE "done"
    /\ lastNav' = NoNav
    /\ navTrip' = NoNav
    /\ UNCHANGED <<currentPhoto, currentPhotoIndex, lightboxShown>>
    /\ GalleryFrame

\* fetch rejects or the body is not JSON (lines 247-248, 257-260).
PhotosFailed ==
    /\ photosFetch = "pending"
    /\ photosFetch' = "error"
    /\ galleryRows' = <<>>
    /\ lastNav' = NoNav
    /\ navTrip' = NoNav
    /\ UNCHANGED <<allPhotosData, currentPhoto, currentPhotoIndex,
                   lightboxShown, sortKey, sortDir>>
    /\ GalleryFrame

\* The user picks another sort key (line 236).  The control keeps the
\* keyboard focus it was given, so the change can come while the lightbox
\* is shown.
SortKeyChange(key) ==
    /\ key # sortKey
    /\ sortKey' = key
    /\ applySortAndRender(key, sortDir)
    /\ lastNav' = NoNav
    /\ navTrip' = NoNav
    /\ UNCHANGED <<currentPhoto, currentPhotoIndex, lightboxShown, sortDir,
                   photosFetch>>
    /\ GalleryFrame

\* The user picks the other sort direction (line 237).
SortDirChange(dir) ==
    /\ dir # sortDir
    /\ sortDir' = dir
    /\ applySortAndRender(sortKey, dir)
    /\ lastNav' = NoNav
    /\ navTrip' = NoNav
    /\ UNCHANGED <<currentPhoto, currentPhotoIndex, lightboxShown, sortKey,
                   photosFetch>>
    /\ GalleryFrame

\* The ids of the images in the gallery container.
GalleryIds ==
    UNION {{galleryRows[r][k].id : k \in 1..Len(galleryRows[r])} :
               r \in 1..Len(galleryRows)}

\* Array.prototype.findIndex(p => p.id === photoId): the first match, or -1.
FindIndex(list, photoId) ==
    IF \E i \in 1..Len(list) : list[i].id = photoId
      THEN (CHOOSE i \in 1..Len(list) :
                /\ list[i].id = photoId
                /\ \A j \in 1..(i - 1) : list[j].id # photoId) - 1
      ELSE -1

\* A click on the gallery image of photo photoId (lines 147-163).  The
\* overlay covers the gallery while the lightbox is shown.
openLightbox(photoId) ==
    /\ ~lightboxShown
    /\ photoId \in GalleryIds
    /\ LET photoIndex == FindIndex(allPhotosData.items, photoId)
       IN IF photoIndex = -1
            THEN UNCHANGED <<currentPhoto, currentPhotoIndex, lightboxShown>>
            ELSE /\ showPhotoByIndex(photoIndex)
                 /\ lightboxShown' = TRUE
    /\ lastNav' = NoNav
    /\ navTrip' = NoNav
    /\ UNCHANGED <<allPhotosData, galleryRows, sortKey, sortDir, photosFetch>>
    /\ GalleryFrame

\* let nextIndex (line 136)
NextIndex(index, length) == (index + 1) % length

\* let prevIndex (line 142)
PrevIndex(index, length) == (index - 1 + length) % length

\* The next button or ArrowRight (lines 134-138, 222-223).  The button is
\* part of the overlay and the key handler is installed by openLightbox.
showNextPhoto ==
    /\ lightboxShown
    /\ showPhotoByIndex(NextIndex(currentPhotoIndex, Len(allPhotosData.items)))
    /\ lastNav' = [kind |-> "next", index |-> currentPhotoIndex,
                   photo |-> currentPhoto]
    /\ navTrip' = IF lastNav.kind = "prev"
                    THEN [lastNav EXCEPT !.kind = "trip"] ELSE NoNav
    /\ UNCHANGED <<allPhotosData, galleryRows, lightboxShown, sortKey, sortDir,
                   photosFetch>>
    /\ GalleryFrame

\* The previous button or ArrowLeft (lines 140-144, 224-225).
showPrevPhoto ==
    /\ lightboxShown
    /\ showPhotoByIndex(PrevIndex(currentPhotoIndex, Len(allPhotosData.items)))
    /\ lastNav' = [kind |-> "prev", index |-> currentPhotoIndex,
                   photo |-> currentPhoto]
    /\ navTrip' = IF lastNav.kind = "next"
                    THEN [lastNav EXCEPT !.kind = "trip"] ELSE NoNav
    /\ UNCHANGED <<allPhotosData, galleryRows, lightboxShown, sortKey, sortDir,
                   photosFetch>>
    /\ GalleryFrame

\* The close button, a click on the backdrop or Escape (lines 166-175).
closeLightbox ==
    /\ lightboxShown
    /\ lightboxShown' = FALSE
    /\ currentPhoto' = Null
    /\ currentPhotoIndex' = -1
    /\ lastNav' = NoNav
    /\ navTrip' = NoNav
    /\ UNCHANGED <<allPhotosData, galleryRows, sortKey, sortDir, photosFetch>>
    /\ GalleryFrame

NextGallery ==
    \/ \E body \in PhotoBodies : PhotosLoaded(body)
    \/ PhotosFailed
    \/ \E key \in SortKeys : SortKeyChange(key)
    \/ \E dir \in SortDirs : SortDirChange(dir)
    \/ \E photoId \in GalleryIds : openLightbox(photoId)
    \/ showNextPhoto
    \/ showPrevPhoto
    \/ closeLightbox

SpecGallery == InitGallery /\ [][NextGallery]_vars

\* ------------------------------------------------------------------------
\* Observers used by the properties
\* ------------------------------------------------------------------------
\* handleUndo calls whose round-trip is outstanding.
UndoInFlight == undoFetch + undoJson

\* No undo was started and no vote failed: every vote action so far was
\* confirmed or still awaits its answer.
OnlyConfirmedVotes ==
    /\ nUndoStarted = 0
    /\ nAccepted = nVoteConfirmed + Cardinality(votes)

\* This step handles the failure of the vote request v.
VoteFailedStep(v) ==
    /\ v \in votes
    /\ \A w \in votes' : w.id # v.id
    /\ nVoteConfirmed' = nVoteConfirmed

\* This step handles the failure of an undo request.
UndoFailedStep ==
    /\ undoFetch' + undoJson' = UndoInFlight - 1
    /\ nUndoConfirmed' = nUndoConfirmed

\* This step handles the server's confirmation of an undo.
UndoConfirmedStep == nUndoConfirmed' = nUndoConfirmed + 1

\* This step handles the failure of a next-pair fetch or of a preload.
FetchFailedStep ==
    /\ Cardinality(fetches') < Cardinality(fetches)
    /\ fetchFailed'

\* ------------------------------------------------------------------------
\* Properties
\* ------------------------------------------------------------------------

\* C1: in every reachable state at most one vote request is in flight, and
\* no vote request is in flight while a next-pair fetch is in flight.
C1_OneVoteNoFetch ==
    /\ Cardinality(votes) <= 1
    /\ votes # {} => fetches = {}

\* C1 witness: a second vote action was accepted, its request is in flight
\* and an undo round-trip is outstanding beside it.
C1_Witness ==
    /\ nAccepted >= 2
    /\ votes # {}
    /\ UndoInFlight > 0

\* C2: in every reachable state a vote request and an undo request are never
\* in flight at the same time.
C2_NoVoteUndoOverlap == ~(votes # {} /\ UndoInFlight > 0)

\* C3: from the acceptance of a vote action until the next-pair fetch its
\* confirmation triggers has settled, the lock isVoting is true in every
\* state.
C3_LockHeldAcrossVoteAndFetch ==
    (votes # {} \/ \E f \in fetches : f.by = "vote") => isVoting

\* C3 witness: the fetch triggered by a confirmed vote is preloading, after
\* an undo was confirmed in the same session.
C3_Witness ==
    /\ \E f \in fetches : f.by = "vote" /\ f.stage = "preload"
    /\ nUndoConfirmed > 0
    /\ isVoting

\* C4 as stated: after each vote of a run of confirmed votes has completed,
\* totalVotes equals the length of voteHistory.
C4_CounterEqualsHistory ==
    (OnlyConfirmedVotes /\ nVoteConfirmed >= 1 /\ votes = {}) =>
        totalVotes = Len(voteHistory)

\* C4 as amended: after each vote of a run of confirmed votes has completed,
\* totalVotes equals the value read at page load plus the length of
\* voteHistory.
C4_CounterEqualsInitialPlusHistory ==
    (OnlyConfirmedVotes /\ nVoteConfirmed >= 1 /\ votes = {}) =>
        totalVotes = initialVotes + Len(voteHistory)

\* C4 witness: two votes confirmed in a row on a page that loaded with a
\* non-zero vote total, and the fetch after the second one has settled.
C4_Witness ==
    /\ OnlyConfirmedVotes
    /\ votes = {}
    /\ fetches = {}
    /\ nVoteConfirmed >= 2
    /\ initialVotes > 0

\* C5: whenever an undo confirmation is handled, currentPair and both
\* displayed images become the pair displayed before the most recent
\* confirmed, not yet undone vote.
C5_UndoRestoresLastConfirmed ==
    [][(UndoConfirmedStep /\ confirmed # <<>>) =>
          /\ currentPair' = confirmed[Len(confirmed)]
          /\ imgA' = confirmed[Len(confirmed)].image_a.url
          /\ imgB' = confirmed[Len(confirmed)].image_b.url]_vars

\* C6: when the failure of a vote is handled, voteHistory, totalVotes,
\* currentPair and both images are what they were just before the vote
\* action was accepted, and the lock is released.
C6_FailedVoteRestoresState ==
    [][\A v \in votes : VoteFailedStep(v) =>
          /\ voteHistory' = v.before.voteHistory
          /\ totalVotes' = v.before.totalVotes
          /\ currentPair' = v.before.currentPair
          /\ imgA' = v.before.imgA
          /\ imgB' = v.before.imgB
          /\ isVoting' = FALSE]_vars

\* C7: handling the failure of an undo leaves the length of voteHistory,
\* totalVotes and currentPair unchanged, and leaves the undo control
\* enabled.
C7_FailedUndoKeepsStateAndControl ==
    [][UndoFailedStep =>
          /\ Len(voteHistory') = Len(voteHistory)
          /\ totalVotes' = totalVotes
          /\ currentPair' = currentPair
          /\ undoDisabled' = FALSE]_vars

\* C8: voteHistory holds, in order, exactly the pre-vote pairs of the votes
\* confirmed by the server and not yet undone.  Stated here for the states
\* in which no vote request awaits its answer, where the entry pushed ahead
\* of the request (line 78) has been either confirmed or rolled back.
C8_HistoryIsConfirmedVotes == votes = {} => voteHistory = confirmed

\* C9: in every reachable state, an enabled undo control implies a
\* non-empty voteHistory.
C9_UndoEnabledImpliesHistory == ~undoDisabled => Len(voteHistory) > 0

\* C10: the failure of a next-pair fetch or preload leaves both images on
\* the error placeholder, and from then on no vote action is accepted until
\* a next-pair fetch has succeeded.
C10_NoVoteAfterFetchFailure ==
    [][/\ FetchFailedStep => (imgA' = ErrorUrl /\ imgB' = ErrorUrl)
       /\ fetchFailed => nAccepted' = nAccepted]_vars

\* No request of the rater page is outstanding.
Quiescent == votes = {} /\ fetches = {} /\ UndoInFlight = 0

\* A click on an image or an arrow key would start a vote.
VoteInputAccepted == (ClickGuard \/ KeydownGuard) /\ SendVoteGuard

\* A click on the undo button or Backspace would start an undo.
UndoInputAccepted == ~undoDisabled /\ Len(voteHistory) # 0

\* This step publishes the pair fetched by f.
FetchPublishedStep(f) ==
    /\ f \in fetches
    /\ \A g \in fetches' : g.id # f.id
    /\ ~fetchFailed'

\* Both image slots show the same placeholder or the two images of one pair.
ImagesConsistent ==
    \/ imgA = LoadingUrl /\ imgB = LoadingUrl
    \/ imgA = ErrorUrl /\ imgB = ErrorUrl
    \/ \E p \in Pairs : imgA = p.image_a.url /\ imgB = p.image_b.url

\* C11: vote requests reach the server one at a time, in the order the vote
\* actions were accepted, and no vote action is accepted for a pair whose
\* vote was already confirmed and not undone.
C11_OrderedAndNeverResubmitted ==
    [][/\ Cardinality(votes') <= 1
       /\ retired => nAccepted' = nAccepted]_vars

\* C12: in every state where all outstanding requests have settled, some
\* user input (a vote or an undo) is accepted.
C12_SomeInputAcceptedWhenSettled ==
    Quiescent => (VoteInputAccepted \/ UndoInputAccepted)

\* C13: in every reachable state the two image slots show the two images of
\* one pair, or both the loading placeholder, or both the error placeholder;
\* and a fetched pair is published only by the load of its second image,
\* after the first one has loaded.
C13_NeverMixedImages ==
    /\ []ImagesConsistent
    /\ [][\A f \in fetches : FetchPublishedStep(f) =>
             /\ f.stage = "preload"
             /\ Cardinality(f.pending) = 1
             /\ currentPair' = f.data
             /\ imgA' = f.data.image_a.url
             /\ imgB' = f.data.image_b.url]_vars

\* C13 witness: a pair restored by a confirmed undo is on display after a
\* next-pair fetch has failed, with nothing outstanding.
C13_Witness ==
    /\ Quiescent
    /\ nUndoConfirmed > 0
    /\ fetchFailed
    /\ currentPair # Null
    /\ imgA = currentPair.image_a.url
    /\ imgB = currentPair.image_b.url

\* C14: in every reachable state totalVotes equals the value read at page
\* load plus the vote confirmations minus the undo confirmations handled
\* since then.
C14_CounterIsConfirmedBalance ==
    totalVotes = initialVotes + nVoteConfirmed - nUndoConfirmed

\* C15: totalVotes is non-negative in every reachable state.
C15_CounterNonNegative == totalVotes >= 0

\* The winner and loser names of a vote for one side of a pair.
SideNames(pair, side) ==
    IF side = "a" THEN <<pair.image_a.name, pair.image_b.name>>
                  ELSE <<pair.image_b.name, pair.image_a.name>>

\* The pair is the one on display.
Displayed(pair) ==
    /\ pair # Null
    /\ imgA = pair.image_a.url
    /\ imgB = pair.image_b.url

\* C21: the vote request of every accepted vote action carries the two names
\* of the pair that is currentPair and on display when the action is taken,
\* winner first for the chosen side; that pair is the snapshot pushed on the
\* history; and the names of a request in flight never change.
C21_VoteSendsDisplayedPair ==
    [][/\ \A v \in votes' :
              (\A w \in votes : w.id # v.id) =>
                  /\ Displayed(currentPair)
                  /\ v.pair = currentPair
                  /\ \E side \in Sides :
                         <<v.winner, v.loser>> = SideNames(currentPair, side)
                  /\ voteHistory' = Append(voteHistory, currentPair)
       /\ \A v \in votes, w \in votes' :
              w.id = v.id =>
                  /\ w.winner = v.winner
                  /\ w.loser = v.loser
                  /\ w.pair = v.pair]_vars

\* C22: at most one undo round-trip is outstanding, and the undo control is
\* disabled for as long as one is.
C22_OneUndoInFlight ==
    /\ UndoInFlight <= 1
    /\ UndoInFlight > 0 => undoDisabled

\* C23: with no vote request and no next-pair fetch outstanding the lock is
\* released.
C23_LockFreeWhenIdle ==
    (votes = {} /\ fetches = {}) => ~isVoting

\* C23 witness: one vote was confirmed and its next-pair fetch has settled,
\* a later vote has failed, and nothing is outstanding.
C23_Witness ==
    /\ votes = {}
    /\ fetches = {}
    /\ nVoteConfirmed >= 1
    /\ nAccepted > nVoteConfirmed
    /\ ~isVoting

\* C24: a pair put back by a confirmed undo stays the current and displayed
\* pair until the next vote action is accepted or another undo is confirmed.
C24_RestoredPairStays ==
    [][(restored /\ nAccepted' = nAccepted
                 /\ nUndoConfirmed' = nUndoConfirmed)
       => /\ currentPair' = currentPair
          /\ imgA' = imgA
          /\ imgB' = imgB]_vars

\* C25: every undo confirmation finds a non-empty history, and currentPair,
\* once a pair, never goes back to null or undefined.
C25_UndoPopsRealPair ==
    [][/\ nUndoConfirmed' = nUndoConfirmed + 1 => Len(voteHistory) > 0
       /\ currentPair # Null => currentPair' # Null]_vars

\* ------------------------------------------------------------------------
\* Properties of createLayout
\* ------------------------------------------------------------------------
\* The cost of a photo as the layout rule states it.
Cost(photo) == IF photo.orientation = "horizontal" THEN 2 ELSE 1

RECURSIVE RowCost(_)
\* The total cost of a row.
RowCost(row) == IF row = <<>> THEN 0 ELSE Cost(Head(row)) + RowCost(Tail(row))

RECURSIVE Concat(_)
\* The rows joined in order.
Concat(rows) == IF rows = <<>> THEN <<>> ELSE Head(rows) \o Concat(Tail(rows))

\* createLayout has returned.
LayoutDone == layoutPc = "done"

\* The orientations of a row, in order.
RowShape(row) == [i \in 1..Len(row) |-> row[i].orientation]

\* C16: the rows emitted so far, then the row being filled, then the photos
\* still queued, are the input list in its order; when createLayout has
\* returned the concatenation of the emitted rows is the input list.
C16_RowsPreserveInput ==
    /\ layoutPc = "inner" =>
           Concat(galleryRows) \o rowPhotos \o photoQueue = photos
    /\ layoutPc = "outer" => Concat(galleryRows) \o photoQueue = photos
    /\ LayoutDone => Concat(galleryRows) = photos

\* C16 witness: a finished layout of several rows, one of them with several
\* photos.
C16_Witness ==
    /\ LayoutDone
    /\ Len(galleryRows) >= 2
    /\ \E i \in 1..Len(galleryRows) : Len(galleryRows[i]) >= 2

\* C17: every emitted row but the last is closed only because the first
\* photo of the next row did not fit: its total plus that photo's cost is
\* above the capacity; and with capacity 4 the list H,V,V,H,V ends as
\* [H,V,V], [H,V].
C17_GreedyFirstFit ==
    /\ \A i \in 1..(Len(galleryRows) - 1) :
           RowCost(galleryRows[i]) + Cost(galleryRows[i + 1][1]) > capacity
    /\ ( /\ LayoutDone
         /\ capacity = 4
         /\ RowShape(photos) = <<"horizontal", "vertical", "vertical",
                                 "horizontal", "vertical">> )
       => /\ Len(galleryRows) = 2
          /\ RowShape(galleryRows[1]) = <<"horizontal", "vertical", "vertical">>
          /\ RowShape(galleryRows[2]) = <<"horizontal", "vertical">>

\* C17 witness: the layout of H,V,V,H,V with capacity 4 has returned.
C17_Witness ==
    /\ LayoutDone
    /\ capacity = 4
    /\ RowShape(photos) = <<"horizontal", "vertical", "vertical",
                            "horizontal", "vertical">>
    /\ Len(galleryRows) = 2

\* C18: a photo whose cost alone is above the capacity is admitted when the
\* row is empty, and the row it is in holds that photo and no other.
C18_OversizedPhotoAlone ==
    /\ [][( /\ layoutPc = "inner"
            /\ rowPhotos = <<>>
            /\ photoQueue # <<>>
            /\ Cost(photoQueue[1]) > capacity )
          => rowPhotos' = <<photoQueue[1]>>]_vars
    /\ [](\A i \in 1..Len(galleryRows) :
             (\E k \in 1..Len(galleryRows[i]) :
                  Cost(galleryRows[i][k]) > capacity)
             => Len(galleryRows[i]) = 1)
    /\ []((layoutPc = "inner" /\ \E k \in 1..Len(rowPhotos) :
                                     Cost(rowPhotos[k]) > capacity)
          => Len(rowPhotos) = 1)

\* C18 witness: with capacity 1 a horizontal photo that follows a vertical
\* one and is followed by another was emitted as a row of its own.
C18_Witness ==
    /\ LayoutDone
    /\ capacity = 1
    /\ \E i \in 2..(Len(galleryRows) - 1) :
           /\ Cost(galleryRows[i][1]) > capacity
           /\ Len(galleryRows[i]) = 1

\* C19: the units counted for the row being filled are 2 for each horizontal
\* photo and 1 for each other photo; every row of two or more photos has a
\* total within the capacity; with the capacity of 4 every row has a total
\* from 1 to 4.
C19_RowTotalsWithinCapacity ==
    /\ layoutPc = "inner" => rowUnits = RowCost(rowPhotos)
    /\ \A i \in 1..Len(galleryRows) :
           /\ Len(galleryRows[i]) >= 2 => RowCost(galleryRows[i]) <= capacity
           /\ capacity = MAX_ROW_UNITS =>
                  RowCost(galleryRows[i]) \in 1..MAX_ROW_UNITS

\* C19 witness: with capacity 4 a finished layout has a row of two
\* horizontal photos and a row holding a photo that is not horizontal.
C19_Witness ==
    /\ LayoutDone
    /\ capacity = MAX_ROW_UNITS
    /\ \E i \in 1..Len(galleryRows) :
           /\ Len(galleryRows[i]) = 2
           /\ RowCost(galleryRows[i]) = 4
    /\ \E i \in 1..Len(galleryRows) :
           \E k \in 1..Len(galleryRows[i]) : Cost(galleryRows[i][k]) = 1

\* C20: createLayout returns for every input; every pass of the outer loop
\* takes at least one photo off the queue; every row handed to buildRow
\* holds a photo; an empty input emits no row.
C20_LayoutTerminates ==
    /\ <>LayoutDone
    /\ [][(layoutPc = "inner" /\ layoutPc' = "outer")
          => /\ Len(rowPhotos) >= 1
             /\ Len(galleryRows') = Len(galleryRows) + 1]_vars
    /\ [](\A i \in 1..Len(galleryRows) : Len(galleryRows[i]) >= 1)
    /\ []((LayoutDone /\ photos = <<>>) => galleryRows = <<>>)

\* C20 witness: a layout with an oversized photo in the list has returned,
\* and so has the layout of the empty list.
C20_Witness ==
    /\ LayoutDone
    /\ capacity = 1
    /\ Len(photos) = MaxPhotos
    /\ \A i \in 1..Len(photos) : photos[i].orientation = "horizontal"
    /\ Len(galleryRows) = MaxPhotos

\* ------------------------------------------------------------------------
\* Properties of the lightbox
\* ------------------------------------------------------------------------
\* C26: while the lightbox is shown currentPhotoIndex is an index of
\* allPhotosData and currentPhoto is the element at that index; while it is
\* not shown currentPhoto is null and currentPhotoIndex is -1.
C26_LightboxTracksPhoto ==
    IF lightboxShown
      THEN /\ 0 <= currentPhotoIndex
           /\ currentPhotoIndex < Len(allPhotosData.items)
           /\ currentPhoto = allPhotosData.items[currentPhotoIndex + 1]
      ELSE /\ currentPhoto = Null
           /\ currentPhotoIndex = -1

\* C27: a next step from the last index lands on index 0, a previous step
\* from index 0 lands on the last index, and a next step followed by a
\* previous step, or the reverse, ends on the index and the photo it
\* started from.
C27_NavigationCyclicInvertible ==
    /\ (lastNav.kind = "next" /\ lastNav.index = Len(allPhotosData.items) - 1)
           => currentPhotoIndex = 0
    /\ (lastNav.kind = "prev" /\ lastNav.index = 0)
           => currentPhotoIndex = Len(allPhotosData.items) - 1
    /\ navTrip.kind = "trip"
           => /\ currentPhotoIndex = navTrip.index
              /\ currentPhoto = navTrip.photo

====
